---- MODULE Spec2Model ----
(***************************************************************************)
(* Token issuance and refresh subsystem of the feed proxy:                 *)
(* StreamTokenProvider (mint / verify HS256 bearer tokens) and TokenManager*)
(* (single-slot cache with a refresh policy and a rotation callback).      *)
(*                                                                         *)
(* Time is Date.now() in milliseconds.  A token string is modelled by the  *)
(* claims it carries and by the message and key its HS256 signature was    *)
(* computed over; two token strings are equal exactly when these are equal.*)
(* Every clock read of generateUserToken is a separate input, so the clock *)
(* may tick between the reads of one mint.                                 *)
(***************************************************************************)
EXTENDS Integers, Sequences, FiniteSets, TLC

VARIABLES
    apiSecret,        \* StreamTokenProvider.apiSecret, set by the constructor
    now,              \* Date.now(), milliseconds
    ticks,            \* number of clock advances so far (bounded)
    currentToken,     \* TokenManager.currentToken : TokenInfo | null
    refreshCallback,  \* TokenManager.refreshCallback : callback | undefined
    calls,            \* the TokenManager calls since the last Tick, newest last
    held,             \* the TokenInfo a direct caller of the provider holds
    probe,            \* the most recent direct StreamTokenProvider call
    userTokens,       \* server.ts: userTokens, the token string kept per user
    currentConnectedUser, \* server.ts: currentConnectedUser
    client,           \* server.ts: the shared FeedsClient and what was last asked of it
    handlers,         \* server.ts: where each request handler stands
    main              \* index.ts: where main() stands, and its refresh timer

\* the state of the two applications built on the TokenManager
appVars == <<userTokens, currentConnectedUser, client, handlers, main>>

vars == <<apiSecret, now, ticks, currentToken, refreshCallback, calls, held, probe,
          userTokens, currentConnectedUser, client, handlers, main>>

-----------------------------------------------------------------------------
(* Bounds *)

MaxTicks == 3

Users == {"alice", "bob"}
\* validityInSeconds as passed by a caller: absent (<<>>) or a number
Validities == {<<>>, <<0>>, <<1>>}
\* amounts by which the clock advances between two calls
TickSteps == {999, 1000, 3300000}
\* amounts by which the clock advances between two reads inside one mint
ClockSteps == {0, 1}
\* minutesBeforeExpiry values passed to isTokenExpiringSoon
LeadMinutes == {0, 5}
\* observers a caller registers: two that return, one that throws
Callbacks == {"cb1", "cb2", "cbThrow"}
ThrowingCallbacks == {"cbThrow"}
\* an observer that itself calls getValidToken for the subject just minted
ReenteringCallbacks == {"cbReenter"}
\* the observers and validities (all above the lead time, for which the
\* nested call does not mint in turn) a re-entered manager is used with
ReentrantCallbacks == {"cbReenter", "cbThrow"}
ReentrantValidities == {<<>>, <<301>>}
\* the request handlers of the server that are in progress at one time
Handlers == {"h1", "h2"}
\* time that passes between two requests to the server
ServerSteps == {3300000}
\* characters of a token's signature segment (43 for HS256) that are changed
SignaturePositions == {1, 22, 43}
\* secrets a provider is constructed with: one that is set, and a missing one
Secrets == {"s3cret", ""}
\* the rotation scenarios: one subject, one observer, a validity of 10
\* seconds, of exactly the lead time (300), of one second more, or absent,
\* and six seconds between two calls
ScenarioUsers == {"alice"}
ScenarioCallbacks == {"cb1"}
ScenarioValidities == {<<10>>, <<300>>, <<301>>, <<>>}
ScenarioSteps == {6000}

-----------------------------------------------------------------------------
(* Program constants *)

ConfiguredSecret == "s3cret"
MissingSecret == ""
OtherSecret == "0ther"
DefaultValidityInSeconds == 3600
DefaultMinutesBeforeExpiry == 5

Null == [kind |-> "null"]
NoCallback == "undefined"
NoToken == [kind |-> "none"]
NoProbe == [op |-> "none"]
\* currentConnectedUser = null, and a client no user was connected to
NoUser == "null"
NoConnect == [user |-> NoUser]
NoFeedCall == [user |-> NoUser]
Idle == [pc |-> "idle", user |-> NoUser]
\* index.ts: the fixed user, the period of the refresh check, and the inputs
\* of a run: TOKEN_VALIDITY_SECONDS, the millisecond within its second at
\* which the first token is minted, the time client.connectUser takes, the
\* delay with which a timer fires, and the time from a check to SIGINT
MainUser == "linson"
RefreshInterval == 5 * 60 * 1000
MainValidities == {200, 301, 600, 3600}
MainOffsets == {0, 999}
ConnectLatencies == {1, 250}
TimerDelays == {0, 1}
SigintDelays == {0, 150000}
NotStarted == [pc |-> "init"]
\* the error jwt.sign throws for a missing secret
SignError == [kind |-> "secretOrPrivateKey must have a value"]

-----------------------------------------------------------------------------
(* jsonwebtoken, as the provider uses it *)

\* variant: every signature is salted with the millisecond it is made in
JwtSign_Salted(payload, secret) ==
    [payload |-> payload, sig |-> [msg |-> payload, key |-> secret, salt |-> now]]

\* jwt.sign(payload, secret, {algorithm: 'HS256'}): the payload's own iat is
\* kept, the signature is the MAC of the payload under the secret.
JwtSign(payload, secret) ==
    [payload |-> payload, sig |-> [msg |-> payload, key |-> secret]]

\* jwt.sign rejects a missing secret ("secretOrPrivateKey must have a value")
JwtSignThrows(secret) == secret = MissingSecret

\* a string of three base64url segments
WellFormed(token) == DOMAIN token = {"payload", "sig"}

\* variant: the expiry is not checked by the library (ignoreExpiration)
JwtVerify_IgnoreExpiration(token, secret, clock) ==
    IF ~WellFormed(token)
    THEN [ok |-> FALSE, error |-> "jwt malformed"]
    ELSE IF secret = MissingSecret
    THEN [ok |-> FALSE, error |-> "secret or public key must be provided"]
    ELSE IF token.sig # [msg |-> token.payload, key |-> secret]
    THEN [ok |-> FALSE, error |-> "invalid signature"]
    ELSE [ok |-> TRUE, decoded |-> token.payload]

\* jwt.verify(token, secret): throws on a malformed string, on a missing
\* secret, on a signature mismatch and, when the payload has an exp, when
\* floor(clock / 1000) >= exp.
JwtVerify(token, secret, clock) ==
    IF ~WellFormed(token)
    THEN [ok |-> FALSE, error |-> "jwt malformed"]
    ELSE IF secret = MissingSecret
    THEN [ok |-> FALSE, error |-> "secret or public key must be provided"]
    ELSE IF token.sig # [msg |-> token.payload, key |-> secret]
    THEN [ok |-> FALSE, error |-> "invalid signature"]
    ELSE IF token.payload.hasExp /\ (clock \div 1000) >= token.payload.exp
    THEN [ok |-> FALSE, error |-> "jwt expired"]
    ELSE [ok |-> TRUE, decoded |-> token.payload]

-----------------------------------------------------------------------------
(* StreamTokenProvider *)

ValidityOf(options) ==
    IF options.validityInSeconds = <<>>
    THEN DefaultValidityInSeconds
    ELSE options.validityInSeconds[1]

\* variant: expiresAt adds the validity in seconds to a time in milliseconds
GenerateUserToken_ExpiresAtSeconds(options, r1, r2, r3) ==
    LET validityInSeconds == ValidityOf(options)
        payload == [user_id |-> options.userId,
                    iat     |-> r1 \div 1000,
                    hasExp  |-> TRUE,
                    exp     |-> (r2 \div 1000) + validityInSeconds]
    IN  [token     |-> JwtSign(payload, apiSecret),
         expiresAt |-> r3 + validityInSeconds,
         userId    |-> options.userId]

\* variant: the clock is subtracted from the validity
GenerateUserToken_ClockSubtracted(options, r1, r2, r3) ==
    LET validityInSeconds == ValidityOf(options)
        payload == [user_id |-> options.userId,
                    iat     |-> r1 \div 1000,
                    hasExp  |-> TRUE,
                    exp     |-> validityInSeconds - (r2 \div 1000)]
    IN  [token     |-> JwtSign(payload, apiSecret),
         expiresAt |-> r3 + validityInSeconds * 1000,
         userId    |-> options.userId]

\* variant: the embedded expiry is left in milliseconds
GenerateUserToken_ExpInMs(options, r1, r2, r3) ==
    LET validityInSeconds == ValidityOf(options)
        payload == [user_id |-> options.userId,
                    iat     |-> r1 \div 1000,
                    hasExp  |-> TRUE,
                    exp     |-> r2 + validityInSeconds * 1000]
    IN  [token     |-> JwtSign(payload, apiSecret),
         expiresAt |-> r3 + validityInSeconds * 1000,
         userId    |-> options.userId]

\* r1, r2, r3: the three Date.now() reads, for iat, for exp and for expiresAt
GenerateUserToken(options, r1, r2, r3) ==
    LET validityInSeconds == ValidityOf(options)
        payload == [user_id |-> options.userId,
                    iat     |-> r1 \div 1000,
                    hasExp  |-> TRUE,
                    exp     |-> (r2 \div 1000) + validityInSeconds]
    IN  [token     |-> JwtSign(payload, apiSecret),
         expiresAt |-> r3 + validityInSeconds * 1000,
         userId    |-> options.userId]

\* variant: the expiry comparison is the wrong way round
ValidateToken_Inverted(token, t1, t2) ==
    LET v == JwtVerify(token, apiSecret, t1)
    IN  IF ~v.ok THEN FALSE
        ELSE IF v.decoded.hasExp /\ v.decoded.exp # 0 /\ v.decoded.exp * 1000 > t2
        THEN FALSE
        ELSE TRUE

\* t1: the clock jwt.verify reads; t2: the Date.now() of the expiry test.
\* decoded.exp < Date.now() / 1000  is  exp * 1000 < t2  on integers.
ValidateToken(token, t1, t2) ==
    LET v == JwtVerify(token, apiSecret, t1)
    IN  IF ~v.ok THEN FALSE
        ELSE IF v.decoded.hasExp /\ v.decoded.exp # 0 /\ v.decoded.exp * 1000 < t2
        THEN FALSE
        ELSE TRUE

\* variant: jwt.decode in place of jwt.verify, the signature is not checked
GetUserFromToken_Decode(token, t1) ==
    IF ~WellFormed(token) THEN Null
    ELSE [userId |-> token.payload.user_id,
          hasExp |-> token.payload.hasExp,
          exp    |-> token.payload.exp]

\* variant: the subject of an expired token is still returned
GetUserFromToken_Stale(token, t1) ==
    LET v == JwtVerify_IgnoreExpiration(token, apiSecret, t1)
    IN  IF ~v.ok THEN Null
        ELSE [userId |-> v.decoded.user_id,
              hasExp |-> v.decoded.hasExp,
              exp    |-> v.decoded.exp]

GetUserFromToken(token, t1) ==
    LET v == JwtVerify(token, apiSecret, t1)
    IN  IF ~v.ok THEN Null
        ELSE [userId |-> v.decoded.user_id,
              hasExp |-> v.decoded.hasExp,
              exp    |-> v.decoded.exp]

\* variant: a token that fails verification is reported as not expiring
IsTokenExpiringSoon_FailOpen(token, minutesBeforeExpiry, t1, t2) ==
    LET v == JwtVerify(token, apiSecret, t1)
    IN  IF ~v.ok THEN FALSE
        ELSE IF ~v.decoded.hasExp \/ v.decoded.exp = 0 THEN FALSE
        ELSE LET expiryTime  == v.decoded.exp * 1000
                 warningTime == expiryTime - (minutesBeforeExpiry * 60 * 1000)
             IN  t2 >= warningTime

\* variant: a token is expiring only after the warning time, not at it
IsTokenExpiringSoon_Strict(token, minutesBeforeExpiry, t1, t2) ==
    LET v == JwtVerify(token, apiSecret, t1)
    IN  IF ~v.ok THEN TRUE
        ELSE IF ~v.decoded.hasExp \/ v.decoded.exp = 0 THEN FALSE
        ELSE LET expiryTime  == v.decoded.exp * 1000
                 warningTime == expiryTime - (minutesBeforeExpiry * 60 * 1000)
             IN  t2 > warningTime

\* variant: the warning time is counted from the issue time
IsTokenExpiringSoon_FromIssue(token, minutesBeforeExpiry, t1, t2) ==
    LET v == JwtVerify(token, apiSecret, t1)
    IN  IF ~v.ok THEN TRUE
        ELSE IF ~v.decoded.hasExp \/ v.decoded.exp = 0 THEN FALSE
        ELSE LET issueTime   == v.decoded.iat * 1000
                 warningTime == issueTime + (minutesBeforeExpiry * 60 * 1000)
             IN  t2 >= warningTime

\* variant: the lead time is ignored, only an expired token is expiring
IsTokenExpiringSoon_Expired(token, minutesBeforeExpiry, t1, t2) ==
    LET v == JwtVerify(token, apiSecret, t1)
    IN  IF ~v.ok THEN TRUE
        ELSE IF ~v.decoded.hasExp \/ v.decoded.exp = 0 THEN FALSE
        ELSE LET expiryTime  == v.decoded.exp * 1000
             IN  t2 >= expiryTime

\* variant: the lead time is converted to seconds, not to milliseconds
IsTokenExpiringSoon_LeadInSeconds(token, minutesBeforeExpiry, t1, t2) ==
    LET v == JwtVerify(token, apiSecret, t1)
    IN  IF ~v.ok THEN TRUE
        ELSE IF ~v.decoded.hasExp \/ v.decoded.exp = 0 THEN FALSE
        ELSE LET expiryTime  == v.decoded.exp * 1000
                 warningTime == expiryTime - (minutesBeforeExpiry * 60)
             IN  t2 >= warningTime

\* variant: the expiry is left in seconds and compared with milliseconds
IsTokenExpiringSoon_NoMs(token, minutesBeforeExpiry, t1, t2) ==
    LET v == JwtVerify(token, apiSecret, t1)
    IN  IF ~v.ok THEN TRUE
        ELSE IF ~v.decoded.hasExp \/ v.decoded.exp = 0 THEN FALSE
        ELSE LET expiryTime  == v.decoded.exp
                 warningTime == expiryTime - (minutesBeforeExpiry * 60 * 1000)
             IN  t2 >= warningTime

IsTokenExpiringSoon(token, minutesBeforeExpiry, t1, t2) ==
    LET v == JwtVerify(token, apiSecret, t1)
    IN  IF ~v.ok THEN TRUE
        ELSE IF ~v.decoded.hasExp \/ v.decoded.exp = 0 THEN FALSE
        ELSE LET expiryTime  == v.decoded.exp * 1000
                 warningTime == expiryTime - (minutesBeforeExpiry * 60 * 1000)
             IN  t2 >= warningTime

-----------------------------------------------------------------------------
(* TokenManager *)

\* variant: the expiring-soon test is left out of the condition
NeedsRefresh_NoExpiry(cached, userId, t) ==
    IF cached = Null THEN TRUE
    ELSE cached.userId # userId

\* variant: the subject comparison is left out of the condition
NeedsRefresh_NoSubject(cached, userId, t) ==
    IF cached = Null THEN TRUE
    ELSE IsTokenExpiringSoon(cached.token, DefaultMinutesBeforeExpiry, t, t)

\* variant: a cached token of the subject is replaced only once it has expired
NeedsRefresh_OnlyExpired(cached, userId, t) ==
    IF cached = Null THEN TRUE
    ELSE IF cached.userId # userId THEN TRUE
    ELSE ~ValidateToken(cached.token, t, t)

\* the condition of getValidToken's if
NeedsRefresh(cached, userId, t) ==
    IF cached = Null THEN TRUE
    ELSE IF cached.userId # userId THEN TRUE
    ELSE IsTokenExpiringSoon(cached.token, DefaultMinutesBeforeExpiry, t, t)

\* variant: the callback is invoked a second time after the mint
Notify_Twice(callback, info) ==
    IF callback # NoCallback
    THEN <<[cb |-> callback, token |-> info.token], [cb |-> callback, token |-> info.token]>>
    ELSE <<>>

\* the callback invocations of one mint
Notify(callback, info) ==
    IF callback # NoCallback
    THEN <<[cb |-> callback, token |-> info.token]>>
    ELSE <<>>

Advances(d1, d2) == (IF d1 > 0 THEN 1 ELSE 0) + (IF d2 > 0 THEN 1 ELSE 0)

\* the call records kept: the last two
Record(c) == IF Len(calls) < 2 THEN Append(calls, c) ELSE Append(Tail(calls), c)

\* the record of one TokenManager call: what was asked, the observer
\* registered when it began, and what came of it (attempts: the calls of
\* generateUserToken it made)
CallRecord(op, userId, validity, arg, end, minted, attempts, reads, notified, outcome, ret) ==
    [op |-> op, userId |-> userId, validity |-> validity,
     callback |-> refreshCallback, arg |-> arg,
     start |-> now, end |-> end, minted |-> minted, attempts |-> attempts,
     reads |-> reads, notified |-> notified, outcome |-> outcome, ret |-> ret]

SetRecord(callback) ==
    CallRecord("setRefreshCallback", "", <<>>, callback, now, FALSE, 0, <<>>, <<>>,
               "resolved", NoToken)

ClearRecord ==
    CallRecord("clearToken", "", <<>>, NoCallback, now, FALSE, 0, <<>>, <<>>,
               "resolved", NoToken)

TypeOK ==
    /\ now \in Nat
    /\ ticks \in 0..MaxTicks
    /\ refreshCallback \in Callbacks \cup ReentrantCallbacks \cup {NoCallback}
    /\ Len(calls) <= 2
    /\ IF currentToken = Null THEN TRUE
       ELSE currentToken.userId \in Users \cup {MainUser}

\* the state after  new TokenManager(new StreamTokenProvider(key, secret))
Constructed(secret) ==
    /\ apiSecret = secret
    /\ now = 0
    /\ ticks = 0
    /\ currentToken = Null
    /\ refreshCallback = NoCallback
    /\ calls = <<>>
    /\ held = Null
    /\ probe = NoProbe
    /\ userTokens = [u \in Users |-> NoToken]
    /\ currentConnectedUser = NoUser
    /\ client = [user |-> NoUser, lastConnect |-> NoConnect, lastFeedCall |-> NoFeedCall]
    /\ handlers = [h \in Handlers |-> Idle]
    /\ main = NotStarted

\* the secret is the one the entry points have checked to be set
Init == Constructed(ConfiguredSecret)

\* time passes between two calls
Tick(d) ==
    /\ ticks < MaxTicks
    /\ now' = now + d
    /\ ticks' = ticks + 1
    /\ calls' = <<>>
    /\ probe' = NoProbe
    /\ UNCHANGED <<appVars, apiSecret, currentToken, refreshCallback, held>>

\* variant: registering an observer drops the cached credential
SetRefreshCallback_Clears(callback) ==
    /\ refreshCallback' = callback
    /\ currentToken' = Null
    /\ calls' = Record(SetRecord(callback))
    /\ UNCHANGED <<appVars, apiSecret, now, ticks, held, probe>>

\* variant: an observer already registered is kept
SetRefreshCallback_KeepFirst(callback) ==
    /\ refreshCallback' = IF refreshCallback = NoCallback THEN callback ELSE refreshCallback
    /\ calls' = Record(SetRecord(callback))
    /\ UNCHANGED <<appVars, apiSecret, now, ticks, currentToken, held, probe>>

SetRefreshCallback(callback) ==
    /\ refreshCallback' = callback
    /\ calls' = Record(SetRecord(callback))
    /\ UNCHANGED <<appVars, apiSecret, now, ticks, currentToken, held, probe>>

\* variant: a mint fills an empty cache but does not replace a credential
GetValidTokenMint_KeepFirst(userId, validity, d1, d2) ==
    LET info == GenerateUserToken([userId |-> userId, validityInSeconds |-> validity],
                                  now, now + d1, now + d1 + d2)
        thrown == refreshCallback \in ThrowingCallbacks
    IN  /\ NeedsRefresh(currentToken, userId, now)
        /\ ~JwtSignThrows(apiSecret)
        /\ refreshCallback \notin ReenteringCallbacks
        /\ ticks + Advances(d1, d2) <= MaxTicks
        /\ currentToken' = IF currentToken = Null THEN info ELSE currentToken
        /\ now' = now + d1 + d2
        /\ ticks' = ticks + Advances(d1, d2)
        /\ calls' = Record(CallRecord("getValidToken", userId, validity, NoCallback,
                                      now + d1 + d2, TRUE, 1,
                                      <<now, now + d1, now + d1 + d2>>,
                                      Notify(refreshCallback, info),
                                      IF thrown THEN "rejected" ELSE "resolved",
                                      IF thrown THEN NoToken ELSE info.token))
        /\ UNCHANGED <<appVars, apiSecret, refreshCallback, held, probe>>

GetValidTokenMint(userId, validity, d1, d2) ==
    LET info == GenerateUserToken([userId |-> userId, validityInSeconds |-> validity],
                                  now, now + d1, now + d1 + d2)
        thrown == refreshCallback \in ThrowingCallbacks
    IN  /\ NeedsRefresh(currentToken, userId, now)
        /\ ~JwtSignThrows(apiSecret)
        /\ refreshCallback \notin ReenteringCallbacks
        /\ ticks + Advances(d1, d2) <= MaxTicks
        /\ currentToken' = info
        /\ now' = now + d1 + d2
        /\ ticks' = ticks + Advances(d1, d2)
        /\ calls' = Record(CallRecord("getValidToken", userId, validity, NoCallback,
                                      now + d1 + d2, TRUE, 1,
                                      <<now, now + d1, now + d1 + d2>>,
                                      Notify(refreshCallback, info),
                                      IF thrown THEN "rejected" ELSE "resolved",
                                      IF thrown THEN NoToken ELSE info.token))
        /\ UNCHANGED <<appVars, apiSecret, refreshCallback, held, probe>>

\* the getValidToken call an observer makes while it is being notified. It
\* finds the cache as the outer call has left it at that point; when that
\* needs refresh it mints in turn (the clock taken to stand still meanwhile)
\* and notifies the observer, whose own nested call then finds the new
\* credential.
NestedMint(userId, validity, t) ==
    GenerateUserToken([userId |-> userId, validityInSeconds |-> validity], t, t, t)

NestedCall(cacheSeen, userId, validity, t) ==
    IF NeedsRefresh(cacheSeen, userId, t)
    THEN [CallRecord("getValidToken", userId, validity, "fromCallback", t,
                     TRUE, 1, <<t, t, t>>,
                     Notify(refreshCallback, NestedMint(userId, validity, t)),
                     "resolved", NestedMint(userId, validity, t).token)
             EXCEPT !.start = t]
    ELSE [CallRecord("getValidToken", userId, validity, "fromCallback", t,
                     FALSE, 0, <<>>, <<>>, "resolved", cacheSeen.token)
             EXCEPT !.start = t]

\* the cache when the nested call has returned
NestedCache(cacheSeen, userId, validity, t) ==
    IF NeedsRefresh(cacheSeen, userId, t)
    THEN NestedMint(userId, validity, t)
    ELSE cacheSeen

\* variant: the callback is invoked before the cache is assigned
GetValidTokenMintReentered_CallbackFirst(userId, validity, d1, d2) ==
    LET info == GenerateUserToken([userId |-> userId, validityInSeconds |-> validity],
                                  now, now + d1, now + d1 + d2)
        t == now + d1 + d2
    IN  /\ NeedsRefresh(currentToken, userId, now)
        /\ ~JwtSignThrows(apiSecret)
        /\ refreshCallback \in ReenteringCallbacks
        /\ ticks + Advances(d1, d2) <= MaxTicks
        /\ currentToken' = info
        /\ now' = t
        /\ ticks' = ticks + Advances(d1, d2)
        /\ calls' = <<NestedCall(currentToken, userId, validity, t),
                      CallRecord("getValidToken", userId, validity, NoCallback,
                                 t, TRUE, 1, <<now, now + d1, t>>,
                                 Notify(refreshCallback, info),
                                 "resolved", info.token)>>
        /\ UNCHANGED <<appVars, apiSecret, refreshCallback, held, probe>>

\* a mint whose observer calls getValidToken(userId, validity) again: the
\* cache is assigned (148), then the callback runs (155) and its nested call
\* runs to its return, then the outer call returns the string that is
\* cached by then (159)
GetValidTokenMintReentered(userId, validity, d1, d2) ==
    LET info == GenerateUserToken([userId |-> userId, validityInSeconds |-> validity],
                                  now, now + d1, now + d1 + d2)
        t == now + d1 + d2
    IN  /\ NeedsRefresh(currentToken, userId, now)
        /\ ~JwtSignThrows(apiSecret)
        /\ refreshCallback \in ReenteringCallbacks
        /\ ticks + Advances(d1, d2) <= MaxTicks
        /\ currentToken' = NestedCache(info, userId, validity, t)
        /\ now' = t
        /\ ticks' = ticks + Advances(d1, d2)
        /\ calls' = <<NestedCall(info, userId, validity, t),
                      CallRecord("getValidToken", userId, validity, NoCallback,
                                 t, TRUE, 1, <<now, now + d1, t>>,
                                 Notify(refreshCallback, info),
                                 "resolved",
                                 NestedCache(info, userId, validity, t).token)>>
        /\ UNCHANGED <<appVars, apiSecret, refreshCallback, held, probe>>

\* variant: the callback is also invoked when the cached token is returned
GetValidTokenCached_Notifies(userId, validity) ==
    /\ ~NeedsRefresh(currentToken, userId, now)
    /\ calls' = Record(CallRecord("getValidToken", userId, validity, NoCallback,
                                  now, FALSE, 0, <<>>, Notify(refreshCallback, currentToken),
                                  "resolved", currentToken.token))
    /\ UNCHANGED <<appVars, apiSecret, now, ticks, currentToken, refreshCallback, held, probe>>

GetValidTokenCached(userId, validity) ==
    /\ ~NeedsRefresh(currentToken, userId, now)
    /\ calls' = Record(CallRecord("getValidToken", userId, validity, NoCallback,
                                  now, FALSE, 0, <<>>, <<>>,
                                  "resolved", currentToken.token))
    /\ UNCHANGED <<appVars, apiSecret, now, ticks, currentToken, refreshCallback, held, probe>>

\* variant: a failed mint is attempted once more before the call fails
GetValidTokenThrows_Retry(userId, validity) ==
    /\ NeedsRefresh(currentToken, userId, now)
    /\ JwtSignThrows(apiSecret)
    /\ calls' = Record(CallRecord("getValidToken", userId, validity, NoCallback,
                                  now, FALSE, 2, <<now, now, now, now>>, <<>>,
                                  "rejected", SignError))
    /\ UNCHANGED <<appVars, apiSecret, now, ticks, currentToken, refreshCallback, held, probe>>

\* generateUserToken throws in jwt.sign, after its two clock reads for the
\* payload: line 148 does not complete, nothing is assigned, no callback is
\* called, and the promise of the async function rejects
GetValidTokenThrows(userId, validity) ==
    /\ NeedsRefresh(currentToken, userId, now)
    /\ JwtSignThrows(apiSecret)
    /\ calls' = Record(CallRecord("getValidToken", userId, validity, NoCallback,
                                  now, FALSE, 1, <<now, now>>, <<>>,
                                  "rejected", SignError))
    /\ UNCHANGED <<appVars, apiSecret, now, ticks, currentToken, refreshCallback, held, probe>>

GetValidToken(userId, validity) ==
    \/ \E d1, d2 \in ClockSteps : GetValidTokenMint(userId, validity, d1, d2)
    \/ GetValidTokenCached(userId, validity)

\* variant: the cache is cleared only when its token is expiring soon
ClearToken_OnlyStale ==
    /\ currentToken' = IF currentToken = Null THEN Null
                       ELSE IF IsTokenExpiringSoon(currentToken.token,
                                                   DefaultMinutesBeforeExpiry, now, now)
                       THEN Null ELSE currentToken
    /\ calls' = Record(ClearRecord)
    /\ UNCHANGED <<appVars, apiSecret, now, ticks, refreshCallback, held, probe>>

\* variant: clearing also unregisters the callback
ClearToken_Unregisters ==
    /\ currentToken' = Null
    /\ refreshCallback' = NoCallback
    /\ calls' = Record(ClearRecord)
    /\ UNCHANGED <<appVars, apiSecret, now, ticks, held, probe>>

ClearToken ==
    /\ currentToken' = Null
    /\ calls' = Record(ClearRecord)
    /\ UNCHANGED <<appVars, apiSecret, now, ticks, refreshCallback, held, probe>>

Next ==
    \/ \E d \in TickSteps : Tick(d)
    \/ \E cb \in Callbacks : SetRefreshCallback(cb)
    \/ \E u \in Users, v \in Validities : GetValidToken(u, v)
    \/ ClearToken

Spec == Init /\ [][Next]_vars

-----------------------------------------------------------------------------
(* Direct calls of the provider *)

\* a token signed with another secret, and one carrying no exp
Forged(token) ==
    {JwtSign(token.payload, OtherSecret),
     JwtSign([token.payload EXCEPT !.hasExp = FALSE, !.exp = 0], apiSecret)}

\* a string that is not three dot-separated segments
Malformed == [kind |-> "malformed"]

\* the token with the k-th character of its signature segment changed
Tamper(token, k) ==
    [token EXCEPT !.sig = [msg |-> token.sig.msg, key |-> token.sig.key, changed |-> k]]

\* the token strings a direct caller can present
Presented ==
    {Malformed} \cup
    (IF held = Null THEN {}
     ELSE {held.info.token} \cup Forged(held.info.token)
          \cup {Tamper(held.info.token, k) : k \in SignaturePositions})

CallGenerateUserToken(userId, validity, d1, d2) ==
    LET info == GenerateUserToken([userId |-> userId, validityInSeconds |-> validity],
                                  now, now + d1, now + d1 + d2)
    IN  /\ ~JwtSignThrows(apiSecret)
        /\ ticks + Advances(d1, d2) <= MaxTicks
        /\ held' = [info |-> info, userId |-> userId, validity |-> validity,
                    reads |-> <<now, now + d1, now + d1 + d2>>]
        /\ probe' = [op |-> "generateUserToken", at |-> now, result |-> info,
                     prior |-> held]
        /\ now' = now + d1 + d2
        /\ ticks' = ticks + Advances(d1, d2)
        /\ UNCHANGED <<appVars, apiSecret, currentToken, refreshCallback, calls>>

\* the call throws in jwt.sign; nothing is returned
CallGenerateUserTokenThrows(userId, validity) ==
    /\ JwtSignThrows(apiSecret)
    /\ probe' = [op |-> "generateUserToken", userId |-> userId, validity |-> validity,
                 at |-> now, result |-> SignError]
    /\ UNCHANGED <<appVars, apiSecret, now, ticks, currentToken, refreshCallback, calls, held>>

CallValidateToken(token, d) ==
    /\ ticks + Advances(d, 0) <= MaxTicks
    /\ probe' = [op |-> "validateToken", token |-> token, at |-> now, end |-> now + d,
                 result |-> ValidateToken(token, now, now + d)]
    /\ now' = now + d
    /\ ticks' = ticks + Advances(d, 0)
    /\ UNCHANGED <<appVars, apiSecret, currentToken, refreshCallback, calls, held>>

CallGetUserFromToken(token) ==
    /\ probe' = [op |-> "getUserFromToken", token |-> token, at |-> now,
                 result |-> GetUserFromToken(token, now)]
    /\ UNCHANGED <<appVars, apiSecret, now, ticks, currentToken, refreshCallback, calls, held>>

CallIsTokenExpiringSoon(token, minutes, d) ==
    /\ ticks + Advances(d, 0) <= MaxTicks
    /\ probe' = [op |-> "isTokenExpiringSoon", token |-> token, minutes |-> minutes,
                 at |-> now, end |-> now + d,
                 result |-> IsTokenExpiringSoon(token, minutes, now, now + d)]
    /\ now' = now + d
    /\ ticks' = ticks + Advances(d, 0)
    /\ UNCHANGED <<appVars, apiSecret, currentToken, refreshCallback, calls, held>>

NextProvider ==
    \/ \E d \in TickSteps : Tick(d)
    \/ \E u \in Users, v \in Validities, d1, d2 \in ClockSteps :
           CallGenerateUserToken(u, v, d1, d2)
    \/ \E t \in Presented, d \in ClockSteps : CallValidateToken(t, d)
    \/ \E t \in Presented : CallGetUserFromToken(t)
    \/ \E t \in Presented, m \in LeadMinutes, d \in ClockSteps :
           CallIsTokenExpiringSoon(t, m, d)

SpecProvider == Init /\ [][NextProvider]_vars

-----------------------------------------------------------------------------
(* A provider constructed with whatever secret the configuration holds *)

\* the constructor stores the secret it is given
InitConfig == \E secret \in Secrets : Constructed(secret)

NextConfig ==
    \/ \E d \in TickSteps : Tick(d)
    \/ \E cb \in Callbacks : SetRefreshCallback(cb)
    \/ \E u \in Users, v \in Validities : GetValidToken(u, v)
    \/ \E u \in Users, v \in Validities : GetValidTokenThrows(u, v)
    \/ ClearToken
    \/ \E u \in Users, v \in Validities : CallGenerateUserTokenThrows(u, v)

SpecConfig == InitConfig /\ [][NextConfig]_vars

-----------------------------------------------------------------------------
(* A manager whose observer calls back into it, or throws *)

NextReentrant ==
    \/ \E d \in TickSteps : Tick(d)
    \/ \E cb \in ReentrantCallbacks : SetRefreshCallback(cb)
    \/ \E u \in Users, v \in ReentrantValidities : GetValidToken(u, v)
    \/ \E u \in Users, v \in ReentrantValidities, d1, d2 \in ClockSteps :
           GetValidTokenMintReentered(u, v, d1, d2)
    \/ ClearToken

SpecReentrant == Init /\ [][NextReentrant]_vars

-----------------------------------------------------------------------------
(* server.ts: a token per user, and one client shared by all requests *)

\* tokenManager.getValidToken(userId, validity) at time t, the clock taken to
\* stand still during the call: the cache it leaves
CacheAfterGet(userId, validity, t) ==
    IF NeedsRefresh(currentToken, userId, t)
    THEN GenerateUserToken([userId |-> userId, validityInSeconds |-> validity], t, t, t)
    ELSE currentToken

\* getUserToken(userId): the string kept for the user if there is one, else
\* the result of getValidToken(userId, 3600), which is then kept
GetUserToken(userId) ==
    IF userTokens[userId] # NoToken
    THEN userTokens[userId]
    ELSE CacheAfterGet(userId, <<3600>>, now).token

\* connectUser from line 73 on, currentConnectedUser not being userId:
\* the token is fetched and client.connectUser is called with it; the handler
\* waits for the client.  The client takes the user it is given.
CallClientConnect(h, userId) ==
    /\ currentToken' = IF userTokens[userId] # NoToken THEN currentToken
                       ELSE CacheAfterGet(userId, <<3600>>, now)
    /\ userTokens' = [userTokens EXCEPT ![userId] = GetUserToken(userId)]
    /\ client' = [client EXCEPT
                     !.user = userId,
                     !.lastConnect = [user |-> userId, token |-> GetUserToken(userId),
                                      at |-> now, over |-> client.user]]
    /\ handlers' = [handlers EXCEPT ![h] = [pc |-> "connecting", user |-> userId]]

\* the handler's feed call, issued when connectUser has resolved (waited:
\* connectUser had to connect the user first)
IssueFeedCall(h, userId, connectedUser, waited) ==
    /\ client' = [client EXCEPT
                     !.lastFeedCall = [user |-> userId, handler |-> h,
                                       waited |-> waited,
                                       clientUser |-> client.user,
                                       currentConnectedUser |-> connectedUser]]
    /\ handlers' = [handlers EXCEPT ![h] = Idle]

\* a request for userId arrives and is handled up to its first wait: another
\* user is connected and client.disconnectUser is called (62-64)
RequestDisconnects(h, userId) ==
    /\ handlers[h] = Idle
    /\ currentConnectedUser # NoUser /\ currentConnectedUser # userId
    /\ handlers' = [handlers EXCEPT ![h] = [pc |-> "disconnecting", user |-> userId]]
    /\ UNCHANGED <<userTokens, currentConnectedUser, client, main, apiSecret, now,
                   ticks, currentToken, refreshCallback, calls, held, probe>>

\* no user is connected: the handler goes on to connect (73-75)
RequestConnects(h, userId) ==
    /\ handlers[h] = Idle
    /\ currentConnectedUser = NoUser
    /\ CallClientConnect(h, userId)
    /\ UNCHANGED <<currentConnectedUser, main, apiSecret, now, ticks,
                   refreshCallback, calls, held, probe>>

\* userId is the connected user: connectUser does nothing, the feed call is
\* issued
RequestServed(h, userId) ==
    /\ handlers[h] = Idle
    /\ currentConnectedUser = userId
    /\ IssueFeedCall(h, userId, currentConnectedUser, FALSE)
    /\ UNCHANGED <<userTokens, currentConnectedUser, main, apiSecret, now, ticks,
                   currentToken, refreshCallback, calls, held, probe>>

\* client.disconnectUser has resolved: currentConnectedUser = null (69), and
\* the handler goes on to connect its user (73-75)
DisconnectResolves(h) ==
    /\ handlers[h].pc = "disconnecting"
    /\ currentConnectedUser' = NoUser
    /\ CallClientConnect(h, handlers[h].user)
    /\ UNCHANGED <<main, apiSecret, now, ticks, refreshCallback, calls, held, probe>>

\* client.connectUser has resolved: currentConnectedUser = userId (76),
\* connectUser resolves and the handler issues its feed call
ConnectResolves(h) ==
    /\ handlers[h].pc = "connecting"
    /\ currentConnectedUser' = handlers[h].user
    /\ IssueFeedCall(h, handlers[h].user, handlers[h].user, TRUE)
    /\ UNCHANGED <<userTokens, main, apiSecret, now, ticks, currentToken,
                   refreshCallback, calls, held, probe>>

\* POST /api/user/disconnect up to its wait (400-401), and from it (404)
DisconnectRequest(h) ==
    /\ handlers[h] = Idle
    /\ currentConnectedUser # NoUser
    /\ handlers' = [handlers EXCEPT ![h] = [pc |-> "disconnectOnly", user |-> NoUser]]
    /\ UNCHANGED <<userTokens, currentConnectedUser, client, main, apiSecret, now,
                   ticks, currentToken, refreshCallback, calls, held, probe>>

DisconnectRequestResolves(h) ==
    /\ handlers[h].pc = "disconnectOnly"
    /\ currentConnectedUser' = NoUser
    /\ client' = [client EXCEPT !.user = NoUser]
    /\ handlers' = [handlers EXCEPT ![h] = Idle]
    /\ UNCHANGED <<userTokens, main, apiSecret, now, ticks, currentToken,
                   refreshCallback, calls, held, probe>>

\* no request is in flight: a request lasts far less than a clock step of
\* ServerSteps (the client gives up after its timeout)
Quiescent == \A h \in Handlers : handlers[h] = Idle

\* time passes between requests
ServerTick(d) ==
    /\ Quiescent
    /\ Tick(d)

NextServer ==
    \/ \E d \in ServerSteps : ServerTick(d)
    \/ \E h \in Handlers, u \in Users : RequestDisconnects(h, u)
    \/ \E h \in Handlers, u \in Users : RequestConnects(h, u)
    \/ \E h \in Handlers, u \in Users : RequestServed(h, u)
    \/ \E h \in Handlers : DisconnectResolves(h)
    \/ \E h \in Handlers : ConnectResolves(h)
    \/ \E h \in Handlers : DisconnectRequest(h)
    \/ \E h \in Handlers : DisconnectRequestResolves(h)

SpecServer == Init /\ [][NextServer]_vars

-----------------------------------------------------------------------------
(* The rotation scenarios *)

\* time passes between two calls of one caller, whose calls stay on record
Elapse(d) ==
    /\ ticks < MaxTicks
    /\ now' = now + d
    /\ ticks' = ticks + 1
    /\ UNCHANGED <<appVars, apiSecret, currentToken, refreshCallback, calls, held, probe>>

NextScenario ==
    \/ \E d \in ScenarioSteps : Elapse(d)
    \/ \E cb \in ScenarioCallbacks : SetRefreshCallback(cb)
    \/ \E u \in ScenarioUsers, v \in ScenarioValidities : GetValidToken(u, v)
    \/ ClearToken

SpecScenario == Init /\ [][NextScenario]_vars

-----------------------------------------------------------------------------
(* Properties of TokenManager.getValidToken *)

LastCall == calls[Len(calls)]
IsGet(c) == c.op = "getValidToken"
\* the lead time getValidToken checks against, in seconds
LeadSeconds == DefaultMinutesBeforeExpiry * 60
\* the cached credential, looked at from outside: what the refresh policy
\* is documented to depend on
\* a step that is a call of getValidToken, and that call's record
GetStep == calls' # calls /\ calls' # <<>> /\ IsGet(calls'[Len(calls')])
NewCall == calls'[Len(calls')]
CacheEmpty == currentToken = Null
CachedFor(u) == IF currentToken = Null THEN FALSE ELSE currentToken.userId = u
CachedExpiringSoon ==
    IF currentToken = Null THEN FALSE
    ELSE IsTokenExpiringSoon(currentToken.token, DefaultMinutesBeforeExpiry, now, now)

\* C1: getValidToken(subject, v) mints a credential and replaces the cache
\* exactly when the cache is empty, or holds another subject, or holds a token
\* that is expiring soon; otherwise it returns the cached token string and
\* leaves the cache as it was.
C1_MintIffStale ==
    [][GetStep =>
           LET c == NewCall
               stale == CacheEmpty \/ ~CachedFor(c.userId) \/ CachedExpiringSoon
           IN  /\ c.minted <=> stale
               /\ stale => \E d1, d2 \in ClockSteps :
                              currentToken' = GenerateUserToken(
                                  [userId |-> c.userId, validityInSeconds |-> c.validity],
                                  now, now + d1, now + d1 + d2)
               /\ ~stale => /\ currentToken' = currentToken
                            /\ c.outcome = "resolved"
                            /\ c.ret = currentToken.token]_vars

\* a call that was served from the cache
C1_Witness ==
    /\ calls # <<>>
    /\ IsGet(LastCall)
    /\ ~LastCall.minted
    /\ currentToken # Null
    /\ LastCall.ret = currentToken.token

\* two calls of getValidToken(u, v), the second made when the first returned,
\* with the clock standing still
TwiceInSuccession ==
    /\ calls # <<>>
    /\ IsGet(LastCall)
    /\ LastCall.start = now /\ LastCall.end = now
    /\ GetStep
    /\ NewCall.userId = LastCall.userId /\ NewCall.validity = LastCall.validity
    /\ now' = now

SameStringAtMostOneNotification(c1, c2) ==
    /\ (c1.outcome = "resolved" /\ c2.outcome = "resolved") => c1.ret = c2.ret
    /\ Len(c1.notified) + Len(c2.notified) <= 1

\* C2 as stated: for every subject and every validity (of those mint accepts,
\* one second or more), two calls in immediate succession return the same
\* string and notify the callback at most once.
C2_Original ==
    [][(TwiceInSuccession /\ ValidityOf([validityInSeconds |-> NewCall.validity]) >= 1)
          => SameStringAtMostOneNotification(LastCall, NewCall)]_vars

\* C2, amended: the two calls return the same string for every validity, and
\* notify the callback at most once when the validity exceeds the lead time
\* of 300 seconds that getValidToken checks against.
C2_Idempotent ==
    [][TwiceInSuccession =>
           LET c1 == LastCall
               c2 == NewCall
           IN  /\ (c1.outcome = "resolved" /\ c2.outcome = "resolved") => c1.ret = c2.ret
               /\ ValidityOf([validityInSeconds |-> c2.validity]) > LeadSeconds
                     => Len(c1.notified) + Len(c2.notified) <= 1]_vars

\* the first call minted and notified, the second returned the same string
\* from the cache
C2_Witness ==
    /\ Len(calls) = 2
    /\ IsGet(calls[1]) /\ IsGet(calls[2])
    /\ calls[1].userId = calls[2].userId /\ calls[1].validity = calls[2].validity
    /\ calls[1].start = calls[2].end
    /\ calls[1].minted /\ Len(calls[1].notified) = 1
    /\ ~calls[2].minted /\ calls[2].notified = <<>>
    /\ calls[1].outcome = "resolved"
    /\ calls[1].ret = calls[2].ret

\* the token a call has just minted and returned is valid at the return
FreshlyMintedIsValid(c) == ValidateToken(c.ret, c.end, c.end)

C4_SubjectSwitch ==
    [][GetStep =>
           LET c == NewCall
           IN  /\ currentToken' # Null
               /\ currentToken'.userId = c.userId
               /\ currentToken'.token.payload.user_id = c.userId
               /\ (~CacheEmpty /\ ~CachedFor(c.userId)) =>
                     /\ c.minted
                     /\ currentToken'.token.payload.iat = c.reads[1] \div 1000]_vars

\* alice's credential, far from expiry, replaced by one for bob
C4_Witness ==
    /\ Len(calls) = 2
    /\ IsGet(calls[1]) /\ IsGet(calls[2])
    /\ calls[1].userId = "alice" /\ calls[1].validity = <<>> /\ calls[1].minted
    /\ calls[2].userId = "bob" /\ calls[2].minted
    /\ currentToken # Null
    /\ currentToken.userId = "bob"

\* C5: a call that mints while a callback is registered invokes that callback
\* exactly once, with the token string the call returns (the one now cached);
\* a call that returns the cached token invokes nothing.
C5_CallbackPerMint ==
    (calls # <<>> /\ IsGet(LastCall)) =>
        LET c == LastCall
        IN  /\ (c.minted /\ refreshCallback # NoCallback) =>
                  /\ c.notified = <<[cb |-> refreshCallback, token |-> currentToken.token]>>
                  /\ c.outcome = "resolved" => c.ret = c.notified[1].token
            /\ (c.minted /\ refreshCallback = NoCallback) => c.notified = <<>>
            /\ ~c.minted => c.notified = <<>>

\* a mint that notified the registered callback with the returned string
C5_Witness ==
    /\ calls # <<>> /\ IsGet(LastCall) /\ LastCall.minted
    /\ refreshCallback = "cb1"
    /\ LastCall.outcome = "resolved"
    /\ LastCall.notified = <<[cb |-> "cb1", token |-> LastCall.ret]>>

-----------------------------------------------------------------------------
(* Properties of clearToken and setRefreshCallback *)

ClearStep == calls' # calls /\ calls' # <<>> /\ NewCall.op = "clearToken"
SetStep == calls' # calls /\ calls' # <<>> /\ NewCall.op = "setRefreshCallback"
\* what a mint is to tell the registered callback
ExpectedNotification ==
    IF refreshCallback = NoCallback THEN <<>>
    ELSE <<[cb |-> refreshCallback, token |-> currentToken.token]>>

\* C6: clearToken leaves the cache empty, and getValidToken on an empty cache
\* always mints and notifies the registered callback, however recently the
\* cleared token was minted.
C6_ClearThenMint ==
    [][/\ ClearStep => currentToken' = Null
       /\ (GetStep /\ CacheEmpty) =>
             /\ NewCall.minted
             /\ currentToken' # Null
             /\ Len(NewCall.notified) = IF refreshCallback = NoCallback THEN 0 ELSE 1]_vars

\* a token minted, cleared and minted again for the same subject within the
\* same millisecond, the callback notified of the second mint
C6_Witness ==
    /\ Len(calls) = 2
    /\ calls[1].op = "clearToken"
    /\ IsGet(calls[2]) /\ calls[2].minted
    /\ calls[2].validity = <<>>
    /\ calls[2].start = calls[1].end
    /\ Len(calls[2].notified) = 1

\* C7: clearToken empties the cache, changes nothing when the cache is
\* already empty, and leaves the registered callback as it was, so that the
\* next mint notifies that callback.
C7_ClearFrame ==
    [][/\ ClearStep =>
             /\ currentToken' = Null
             /\ refreshCallback' = refreshCallback
             /\ CacheEmpty => <<currentToken, refreshCallback>>' = <<currentToken, refreshCallback>>
       /\ (GetStep /\ calls # <<>> /\ LastCall.op = "clearToken") =>
             /\ LastCall.callback = refreshCallback
             /\ Len(NewCall.notified) = IF LastCall.callback = NoCallback THEN 0 ELSE 1
             /\ \A i \in 1..Len(NewCall.notified) :
                    NewCall.notified[i].cb = LastCall.callback]_vars

\* clearToken called twice with a callback registered
C7_Witness ==
    /\ Len(calls) = 2
    /\ calls[1].op = "clearToken" /\ calls[2].op = "clearToken"
    /\ calls[2].callback = "cb1"
    /\ refreshCallback = "cb1"
    /\ currentToken = Null

\* C8: setRefreshCallback stores its argument in place of the observer
\* registered before, leaves the cache alone and invokes nothing; a mint
\* invokes only the observer registered last.
C8_SingleObserver ==
    [][/\ SetStep =>
             /\ refreshCallback' = NewCall.arg
             /\ currentToken' = currentToken
             /\ NewCall.notified = <<>>
       /\ GetStep =>
             /\ Len(NewCall.notified) <= 1
             /\ \A i \in 1..Len(NewCall.notified) :
                    NewCall.notified[i].cb = refreshCallback
             /\ (calls # <<>> /\ LastCall.op = "setRefreshCallback" /\ NewCall.minted)
                   => /\ Len(NewCall.notified) = 1
                      /\ NewCall.notified[1].cb = LastCall.arg]_vars

\* cb2 registered in place of cb1, and the next mint notified cb2 only
C8_Witness ==
    /\ Len(calls) = 2
    /\ calls[1].op = "setRefreshCallback"
    /\ calls[1].callback = "cb1" /\ calls[1].arg = "cb2"
    /\ IsGet(calls[2]) /\ calls[2].minted
    /\ Len(calls[2].notified) = 1
    /\ calls[2].notified[1].cb = "cb2"

-----------------------------------------------------------------------------
(* Properties of the provider's verification operations *)

\* the token's signature is the one the provider's secret gives its payload
SignatureVerifies(token) ==
    IF ~WellFormed(token) THEN FALSE
    ELSE /\ DOMAIN token.sig = {"msg", "key"}
         /\ token.sig.key = apiSecret
         /\ token.sig.msg = token.payload
CarriesExp(token) == IF WellFormed(token) THEN token.payload.hasExp ELSE FALSE
\* the expiry the token carries, in milliseconds
ExpiresAtMs(token) == token.payload.exp * 1000
ProbedHeld(op) ==
    /\ probe.op = op
    /\ held # Null
    /\ probe.token = held.info.token

C10_ValidExactly ==
    (probe.op = "validateToken" /\ (WellFormed(probe.token) => CarriesExp(probe.token))) =>
        probe.result = (SignatureVerifies(probe.token) /\ probe.at < ExpiresAtMs(probe.token))

\* a correctly signed token checked at the very instant of its expiry
C10_Witness ==
    /\ ProbedHeld("validateToken")
    /\ SignatureVerifies(probe.token)
    /\ probe.at = ExpiresAtMs(probe.token)
    /\ probe.end = probe.at
    /\ probe.result = FALSE

\* the call was one of the three verification operations
Verification(op) == op \in {"validateToken", "getUserFromToken", "isTokenExpiringSoon"}
\* what each operation answers for a token that fails verification
Collapsed(op) ==
    IF op = "validateToken" THEN probe.result = FALSE
    ELSE IF op = "getUserFromToken" THEN probe.result = Null
    ELSE probe.result = TRUE
\* the token has reached its expiry at time t (milliseconds)
ExpiredAt(token, t) == CarriesExp(token) /\ t >= ExpiresAtMs(token)
\* malformed, or not signed by the provider's secret (signed with another
\* secret, or tampered with), or expired
FailsVerification(token, t) ==
    IF ~WellFormed(token) THEN TRUE
    ELSE IF ~SignatureVerifies(token) THEN TRUE
    ELSE ExpiredAt(token, t)

\* C11: the three verification operations return for every input, and for a
\* string that is malformed, signed with another secret, tampered with or
\* expired validateToken returns false, getUserFromToken returns null and
\* isTokenExpiringSoon returns true.
C11_VerificationTotal ==
    Verification(probe.op) =>
        /\ probe.op = "validateToken" => probe.result \in BOOLEAN
        /\ probe.op = "isTokenExpiringSoon" => probe.result \in BOOLEAN
        /\ FailsVerification(probe.token, probe.at) => Collapsed(probe.op)

\* a malformed string reported as expiring soon
C11_Witness ==
    /\ probe.op = "isTokenExpiringSoon"
    /\ probe.token = Malformed
    /\ probe.result = TRUE

\* the presented string is the held token with one signature character changed
TamperedHeld ==
    /\ held # Null
    /\ \E k \in SignaturePositions : probe.token = Tamper(held.info.token, k)

\* C12: a token with any one character of its signature segment changed is
\* rejected: validateToken returns false and getUserFromToken returns null,
\* also when the token it was made from is valid.
C12_TamperRejected ==
    (probe.op \in {"validateToken", "getUserFromToken"} /\ TamperedHeld) =>
        /\ probe.op = "validateToken" => probe.result = FALSE
        /\ probe.op = "getUserFromToken" => probe.result = Null

\* the last signature character of a token that is valid at the call was
\* changed, and no subject is decoded from the result
C12_Witness ==
    /\ probe.op = "getUserFromToken"
    /\ held # Null
    /\ probe.token = Tamper(held.info.token, 43)
    /\ ValidateToken(held.info.token, probe.at, probe.at)
    /\ probe.result = Null

\* the issue time and the expiry a minted token carries, in seconds
IssuedAt(info) == info.token.payload.iat
EmbeddedExpiry(info) == info.token.payload.exp
PositiveValidity(validity) == ValidityOf([validityInSeconds |-> validity]) >= 1

\* C13 as stated: for every positive validity v the embedded expiry minus the
\* embedded issue time is exactly v.
C13_Original ==
    (held # Null /\ PositiveValidity(held.validity)) =>
        EmbeddedExpiry(held.info) - IssuedAt(held.info)
            = ValidityOf([validityInSeconds |-> held.validity])

\* C13, amended: the embedded expiry minus the embedded issue time is v plus
\* the number of clock seconds that passed between the read for the issue
\* time and the read for the expiry (v when both reads fall in one second),
\* and the expiry, embedded and in TokenInfo.expiresAt, is strictly after the
\* issue time.
C13_ValidityWindow ==
    (held # Null /\ PositiveValidity(held.validity)) =>
        LET v == ValidityOf([validityInSeconds |-> held.validity])
            elapsed == (held.reads[2] \div 1000) - (held.reads[1] \div 1000)
        IN  /\ EmbeddedExpiry(held.info) - IssuedAt(held.info) = v + elapsed
            /\ elapsed = 0 => EmbeddedExpiry(held.info) - IssuedAt(held.info) = v
            /\ EmbeddedExpiry(held.info) > IssuedAt(held.info)
            /\ held.info.expiresAt > IssuedAt(held.info) * 1000
            /\ held.info.expiresAt = held.reads[3] + v * 1000

\* a mint during which the clock passed a second boundary between the read
\* for the issue time and the read for the expiry
C13_Witness ==
    /\ held # Null
    /\ PositiveValidity(held.validity)
    /\ held.reads[1] \div 1000 < held.reads[2] \div 1000
    /\ EmbeddedExpiry(held.info) - IssuedAt(held.info)
           = ValidityOf([validityInSeconds |-> held.validity]) + 1

\* C14: getUserFromToken returns the subject a token was minted for as long
\* as the token verifies (signed by the provider's secret and unexpired), and
\* null for every token that does not verify.
C14_SubjectRoundTrip ==
    probe.op = "getUserFromToken" =>
        IF FailsVerification(probe.token, probe.at)
        THEN probe.result = Null
        ELSE /\ probe.result # Null
             /\ probe.result.userId = probe.token.payload.user_id
             /\ ProbedHeld("getUserFromToken") => probe.result.userId = held.userId

\* the subject read back from a token minted with a validity of one second
C14_Witness ==
    /\ ProbedHeld("getUserFromToken")
    /\ held.validity = <<1>>
    /\ probe.result # Null
    /\ probe.result.userId = held.userId

-----------------------------------------------------------------------------
(* Properties of getValidToken: rotation, overlapping callers, failure *)

\* the credential a minting call wrote to the cache
MintedBy(c) ==
    GenerateUserToken([userId |-> c.userId, validityInSeconds |-> c.validity],
                      c.reads[1], c.reads[2], c.reads[3])
\* a call for alice with a validity of ten seconds
ScenarioCall(c) == IsGet(c) /\ c.userId = "alice" /\ c.validity = <<10>>
\* a first call at t = 0 that minted, and the next call at t = 6
TenSecondScenario ==
    /\ Len(calls) = 2
    /\ ScenarioCall(calls[1]) /\ ScenarioCall(calls[2])
    /\ calls[1].start = 0 /\ calls[1].end \div 1000 = 0 /\ calls[1].minted
    /\ calls[2].start \div 1000 = 6 /\ calls[2].end \div 1000 = 6

\* C15: with a validity of 10 seconds, the token minted for alice at t = 0
\* carries issue time 0 and expiry 10 and is expiring soon at t = 6, so the
\* call getValidToken("alice", 10) at t = 6 mints a replacement with issue
\* time 6 and expiry 16, which is cached, and the registered callback
\* receives the new token string exactly once.
C15_TenSecondRotation ==
    TenSecondScenario =>
        LET first == MintedBy(calls[1])
            c == calls[2]
        IN  /\ IssuedAt(first) = 0
            /\ EmbeddedExpiry(first) = 10
            /\ first.expiresAt \div 1000 = 10
            /\ IsTokenExpiringSoon(first.token, DefaultMinutesBeforeExpiry, c.start, c.start)
            /\ c.minted
            /\ IssuedAt(MintedBy(c)) = 6
            /\ EmbeddedExpiry(MintedBy(c)) = 16
            /\ MintedBy(c).expiresAt \div 1000 = 16
            /\ currentToken = MintedBy(c)
            /\ MintedBy(c).token # first.token
            /\ c.callback # NoCallback =>
                   c.notified = <<[cb |-> c.callback, token |-> MintedBy(c).token]>>
            /\ c.outcome = "resolved" => c.ret = MintedBy(c).token

\* the replacement minted at t = 6, reported once to the callback cb1
C15_Witness ==
    /\ TenSecondScenario
    /\ now = 6000
    /\ calls[2].minted
    /\ calls[2].ret.payload.iat = 6
    /\ calls[2].ret.payload.exp = 16
    /\ calls[2].notified = <<[cb |-> "cb1", token |-> calls[2].ret]>>
    /\ calls[2].ret # calls[1].ret

\* two calls for one subject, the second begun when the first returned
\* (getValidToken has no await: overlapping calls run one after the other)
OverlappingCalls ==
    /\ Len(calls) = 2
    /\ IsGet(calls[1]) /\ IsGet(calls[2])
    /\ calls[1].userId = calls[2].userId
\* the token the caller received is unexpired and names the requested subject
ValidForCaller(c) ==
    /\ ValidateToken(c.ret, c.end, c.end)
    /\ c.ret.payload.user_id = c.userId
\* the cache holds what the last of the two mints wrote
LastWriteWins ==
    IF calls[2].minted THEN currentToken = MintedBy(calls[2])
    ELSE IF calls[1].minted THEN currentToken = MintedBy(calls[1])
    ELSE TRUE

C17_DuplicateMint ==
    (OverlappingCalls /\ calls[1].minted) =>
        (calls[2].minted <=>
            IsTokenExpiringSoon(MintedBy(calls[1]).token, DefaultMinutesBeforeExpiry,
                                calls[2].start, calls[2].start))

\* two calls for alice in the same millisecond on an empty cache, both minting
C17_Witness ==
    /\ OverlappingCalls
    /\ calls[1].userId = "alice"
    /\ calls[1].validity = calls[2].validity
    /\ calls[1].minted /\ calls[2].minted
    /\ calls[1].start = calls[2].end
    /\ Len(calls[1].notified) = 1 /\ Len(calls[2].notified) = 1

\* the mint of this call fails
MintFails(userId) == NeedsRefresh(currentToken, userId, now) /\ JwtSignThrows(apiSecret)

\* C18: when the mint fails inside getValidToken the call is rejected with the
\* mint's error, generateUserToken has been called once, the cache is as it
\* was before the call and the callback has not been invoked.
C18_MintFailurePropagates ==
    [][(GetStep /\ MintFails(NewCall.userId)) =>
           /\ NewCall.outcome = "rejected"
           /\ NewCall.ret = SignError
           /\ NewCall.attempts = 1
           /\ ~NewCall.minted
           /\ NewCall.notified = <<>>
           /\ currentToken' = currentToken
           /\ refreshCallback' = refreshCallback]_vars

\* a rejected call on a manager whose provider has no secret, with a callback
\* registered and not invoked
C18_Witness ==
    /\ apiSecret = MissingSecret
    /\ calls # <<>> /\ IsGet(LastCall)
    /\ LastCall.callback = "cb1"
    /\ LastCall.outcome = "rejected"
    /\ LastCall.ret = SignError
    /\ LastCall.attempts = 1
    /\ LastCall.notified = <<>>
    /\ currentToken = Null

\* C19 as stated: a provider that was constructed mints successfully on
\* every call, directly and inside getValidToken.
C19_Original ==
    /\ probe.op = "generateUserToken" => probe.result # SignError
    /\ (calls # <<>> /\ IsGet(LastCall) /\ LastCall.attempts > 0) => LastCall.minted

\* the validity a call asks for differs from the one the cached credential
\* was minted with by the call before
OtherValidityThanCached ==
    /\ calls # <<>> /\ IsGet(LastCall) /\ LastCall.minted
    /\ currentToken = MintedBy(LastCall)
    /\ GetStep
    /\ NewCall.userId = LastCall.userId
    /\ ValidityOf([validityInSeconds |-> NewCall.validity])
          # ValidityOf([validityInSeconds |-> LastCall.validity])

\* C20: a call for the cached subject with another validity than the cached
\* credential was minted with, made while that credential is not expiring
\* soon, returns the cached token string, leaves the cache as it was, mints
\* nothing and invokes no callback.
C20_ValidityIgnored ==
    [][(OtherValidityThanCached /\ ~CachedExpiringSoon) =>
           /\ ~NewCall.minted
           /\ NewCall.attempts = 0
           /\ NewCall.outcome = "resolved"
           /\ NewCall.ret = currentToken.token
           /\ NewCall.notified = <<>>
           /\ currentToken' = currentToken
           /\ EmbeddedExpiry(currentToken') - IssuedAt(currentToken')
                 >= ValidityOf([validityInSeconds |-> LastCall.validity])]_vars

\* a credential minted with the default validity, returned to a call that
\* asked for one second
C20_Witness ==
    /\ OverlappingCalls
    /\ calls[1].validity = <<>> /\ calls[1].minted
    /\ calls[2].validity = <<1>> /\ ~calls[2].minted
    /\ calls[1].outcome = "resolved"
    /\ calls[2].ret = calls[1].ret
    /\ calls[2].notified = <<>>
    /\ refreshCallback # NoCallback
    /\ currentToken.token = calls[1].ret

-----------------------------------------------------------------------------
(* Properties of the cached slot *)

\* the slot holds nothing, or one TokenInfo
OneCredential(slot) ==
    IF slot = Null THEN TRUE ELSE DOMAIN slot = {"token", "expiresAt", "userId"}

\* C21: the slot is empty at construction and is populated only by a minting
\* getValidToken; once populated it becomes empty only through clearToken; a
\* refresh or a subject switch replaces the credential in one step, the slot
\* being populated before and after; the slot never holds more than one
\* credential.
C21_SlotLifecycle ==
    /\ CacheEmpty
    /\ [][/\ (CacheEmpty /\ currentToken' # Null) => (GetStep /\ NewCall.minted)
          /\ (~CacheEmpty /\ currentToken' = Null) => ClearStep
          /\ GetStep => currentToken' # Null
          /\ (GetStep /\ ~CacheEmpty /\ NewCall.minted) =>
                 /\ currentToken' = MintedBy(NewCall)
                 /\ currentToken'.userId = NewCall.userId
          /\ (CacheEmpty /\ ~GetStep) => currentToken' = Null
          /\ OneCredential(currentToken) /\ OneCredential(currentToken')]_vars

\* a slot populated by a mint for alice and emptied by clearToken
C21_Witness ==
    /\ Len(calls) = 2
    /\ IsGet(calls[1]) /\ calls[1].minted /\ calls[1].userId = "alice"
    /\ calls[2].op = "clearToken"
    /\ calls[2].start = calls[1].end
    /\ currentToken = Null

-----------------------------------------------------------------------------
(* Properties of the minted token string *)

\* generateUserToken has returned, and the caller held a token minted before
MintedAgain ==
    /\ probe.op = "generateUserToken"
    /\ probe.result # SignError
    /\ probe.prior # Null
\* the three fields a token carries
Fields(info) == <<info.token.payload.user_id, IssuedAt(info), EmbeddedExpiry(info)>>

-----------------------------------------------------------------------------
(* Properties of the token getValidToken returns *)

\* a call of getValidToken that handed its caller a token
Returned(c) == IsGet(c) /\ c.outcome = "resolved"
\* the validity the returned token has left at the return, in milliseconds
RemainingMs(c) == ExpiresAtMs(c.ret) - c.end

-----------------------------------------------------------------------------
(* Properties of the cached TokenInfo *)

\* by how many milliseconds TokenInfo.expiresAt is after the embedded expiry
ExpiresAtLag(info) == info.expiresAt - ExpiresAtMs(info.token)

\* C30: the cached TokenInfo names the subject its token string embeds, and
\* its expiresAt is at or after the embedded expiry and less than two seconds
\* after it: it is later by the milliseconds of the second in which the
\* expiry was read plus the time between that read and the read for
\* expiresAt.
C30_TokenInfoConsistent ==
    /\ currentToken # Null =>
          /\ currentToken.userId = currentToken.token.payload.user_id
          /\ ExpiresAtLag(currentToken) >= 0
          /\ ExpiresAtLag(currentToken) < 2000
    /\ (calls # <<>> /\ IsGet(LastCall) /\ LastCall.minted) =>
          /\ currentToken = MintedBy(LastCall)
          /\ currentToken.userId = LastCall.userId
          /\ ExpiresAtLag(currentToken)
                = (LastCall.reads[2] % 1000) + (LastCall.reads[3] - LastCall.reads[2])

\* a mint that read the clock for the expiry at 999 ms and for expiresAt at
\* 1000 ms: expiresAt is a full second after the embedded expiry
C30_Witness ==
    /\ calls # <<>> /\ IsGet(LastCall) /\ LastCall.minted
    /\ LastCall.reads[2] = 999 /\ LastCall.reads[3] = 1000
    /\ currentToken # Null
    /\ ExpiresAtLag(currentToken) = 1000

-----------------------------------------------------------------------------
(* Properties of repeated rotation *)

\* the cache holds what the call on record i minted
CachedBy(i) ==
    /\ i \in 1..Len(calls)
    /\ IsGet(calls[i]) /\ calls[i].minted
    /\ currentToken = MintedBy(calls[i])
\* the cached credential was minted with a validity no larger than the lead
\* time getValidToken checks against
ShortLivedCached ==
    \E i \in 1..2 :
        /\ CachedBy(i)
        /\ ValidityOf([validityInSeconds |-> calls[i].validity]) <= LeadSeconds

\* C24: a credential minted with a validity of at most 300 seconds is
\* expiring soon from the moment it is cached, at every later time, so the
\* next getValidToken call for its subject mints again and invokes the
\* registered callback again.
C24_NeverACacheHit ==
    [][/\ ShortLivedCached => CachedExpiringSoon
       /\ (GetStep /\ ShortLivedCached /\ CachedFor(NewCall.userId)) =>
             /\ NewCall.minted
             /\ NewCall.attempts = 1
             /\ Len(NewCall.notified) = IF refreshCallback = NoCallback THEN 0 ELSE 1]_vars

\* two calls with a validity of exactly 300 seconds, the second made in the
\* millisecond in which the first returned: both mint, both notify
C24_Witness ==
    /\ Len(calls) = 2
    /\ IsGet(calls[1]) /\ IsGet(calls[2])
    /\ calls[1].validity = <<300>> /\ calls[2].validity = <<300>>
    /\ calls[1].start = 0 /\ calls[2].end = 0
    /\ calls[1].minted /\ calls[2].minted
    /\ Len(calls[1].notified) = 1 /\ Len(calls[2].notified) = 1

\* the cached credential was minted for this subject with this validity
CachedWith(userId, validity) ==
    \E i \in 1..2 :
        /\ CachedBy(i)
        /\ calls[i].userId = userId
        /\ calls[i].validity = validity

\* C26: for a fixed subject and a fixed validity, a getValidToken call leaves
\* a cached credential that expires no earlier than the one it found, in
\* the embedded expiry and in TokenInfo.expiresAt.
C26_ExpiryMonotone ==
    [][(GetStep /\ CachedWith(NewCall.userId, NewCall.validity)) =>
           /\ EmbeddedExpiry(currentToken') >= EmbeddedExpiry(currentToken)
           /\ currentToken'.expiresAt >= currentToken.expiresAt
           /\ NewCall.minted => IssuedAt(currentToken') >= IssuedAt(currentToken)]_vars

\* a credential with a validity of 301 seconds, replaced after 6 seconds by
\* one that expires 6 seconds later
C26_Witness ==
    /\ Len(calls) = 2
    /\ IsGet(calls[1]) /\ IsGet(calls[2])
    /\ calls[1].validity = <<301>> /\ calls[2].validity = <<301>>
    /\ calls[1].minted /\ calls[2].minted
    /\ calls[1].outcome = "resolved"
    /\ currentToken = MintedBy(calls[2])
    /\ EmbeddedExpiry(currentToken) = calls[1].ret.payload.exp + 6

-----------------------------------------------------------------------------
(* Properties of the order of cache write and callback *)

\* the last two records are a nested call and the call whose callback made it
Reentered ==
    /\ Len(calls) = 2
    /\ calls[1].arg = "fromCallback"
    /\ IsGet(calls[2])

\* what the throwing of a callback leaves behind
ThrowKeepsCache ==
    (calls # <<>> /\ IsGet(LastCall) /\ LastCall.minted
       /\ LastCall.callback \in ThrowingCallbacks) =>
        /\ LastCall.outcome = "rejected"
        /\ LastCall.ret = NoToken
        /\ Len(LastCall.notified) = 1
        /\ currentToken = MintedBy(LastCall)
        /\ currentToken.token = LastCall.notified[1].token

\* C25 as stated: a getValidToken call made from inside the callback for the
\* same subject, with a validity above the lead time, returns the token
\* passed to the callback without minting; a callback that throws leaves the
\* new credential cached.
C25_Original ==
    /\ Reentered =>
          /\ ~calls[1].minted
          /\ calls[1].ret = calls[2].notified[1].token
    /\ ThrowKeepsCache

\* C25, amended: the cache is assigned before the callback is invoked, so
\* the nested call decides on the credential that was passed to the
\* callback: it returns that token string without minting exactly when that
\* credential is not expiring soon at that moment, which is so when the
\* validity is at least 301 seconds and the callback runs in the clock
\* second in which the mint read the clock for the expiry; a callback that
\* throws leaves the new credential cached and the call rejected.
C25_CacheBeforeCallback ==
    /\ Reentered =>
          LET nested == calls[1]
              outer == calls[2]
              passed == MintedBy(outer)
          IN  /\ outer.minted
              /\ outer.notified = <<[cb |-> outer.callback, token |-> passed.token]>>
              /\ nested.minted <=>
                    IsTokenExpiringSoon(passed.token, DefaultMinutesBeforeExpiry,
                                        nested.start, nested.start)
              /\ ~nested.minted =>
                    /\ nested.notified = <<>>
                    /\ nested.ret = passed.token
                    /\ outer.ret = passed.token
                    /\ currentToken = passed
              /\ (/\ ValidityOf([validityInSeconds |-> outer.validity]) > LeadSeconds
                  /\ outer.reads[2] \div 1000 = nested.start \div 1000)
                    => ~nested.minted
              /\ outer.ret = currentToken.token
    /\ ThrowKeepsCache

\* a subject switch from alice to bob whose callback asked for bob's token
\* again and was given the string it had just been notified of
C25_Witness ==
    /\ Reentered
    /\ calls[2].userId = "bob"
    /\ calls[1].ret = calls[2].notified[1].token
    /\ calls[1].ret.payload.user_id = "bob"
    /\ ~calls[1].minted
    /\ currentToken.token = calls[1].ret

-----------------------------------------------------------------------------
(* index.ts: main *)

\* the cached credential is missing or expired at time t
Lapsed(t) ==
    IF currentToken = Null THEN TRUE
    ELSE ~ValidateToken(currentToken.token, t, t)

\* main up to the first token: setRefreshCallback with the logging callback,
\* then getValidToken(config.userId, config.tokenValiditySeconds)
MainGetsToken(validity, offset) ==
    /\ main = NotStarted
    /\ ~JwtSignThrows(apiSecret)
    /\ now' = offset
    /\ refreshCallback' = "cb1"
    /\ currentToken' = GenerateUserToken(
            [userId |-> MainUser, validityInSeconds |-> <<validity>>],
            offset, offset, offset)
    /\ main' = [pc |-> "connecting", validity |-> validity,
                userToken |-> currentToken'.token, nextCheck |-> 0,
                lapsed |-> FALSE]
    /\ UNCHANGED <<userTokens, currentConnectedUser, client, handlers,
                   apiSecret, ticks, calls, held, probe>>

\* await client.connectUser resolves and setInterval registers the check
MainConnected(latency) ==
    /\ main.pc = "connecting"
    /\ now' = now + latency
    /\ main' = [main EXCEPT !.pc = "running",
                            !.nextCheck = now' + RefreshInterval,
                            !.lapsed = main.lapsed \/ Lapsed(now')]
    /\ UNCHANGED <<userTokens, currentConnectedUser, client, handlers,
                   apiSecret, ticks, currentToken, refreshCallback, calls,
                   held, probe>>

\* the periodic check: getValidToken with the same arguments; the timer is
\* due again one period after it fired
IntervalFires(delay) ==
    /\ main.pc = "running"
    /\ ticks < MaxTicks
    /\ ticks' = ticks + 1
    /\ now' = main.nextCheck + delay
    /\ currentToken' = CacheAfterGet(MainUser, <<main.validity>>, now')
    /\ main' = [main EXCEPT !.nextCheck = now' + RefreshInterval,
                            !.lapsed = main.lapsed \/ Lapsed(now')]
    /\ UNCHANGED <<userTokens, currentConnectedUser, client, handlers,
                   apiSecret, refreshCallback, calls, held, probe>>

\* SIGINT: clearInterval, clearToken, exit
Sigint(delay) ==
    /\ main.pc = "running"
    /\ now + delay < main.nextCheck
    /\ now' = now + delay
    /\ currentToken' = Null
    /\ main' = [main EXCEPT !.pc = "stopped",
                            !.lapsed = main.lapsed \/ Lapsed(now')]
    /\ UNCHANGED <<userTokens, currentConnectedUser, client, handlers,
                   apiSecret, ticks, refreshCallback, calls, held, probe>>

NextMain ==
    \/ \E v \in MainValidities, o \in MainOffsets : MainGetsToken(v, o)
    \/ \E l \in ConnectLatencies : MainConnected(l)
    \/ \E d \in TimerDelays : IntervalFires(d)
    \/ \E d \in SigintDelays : Sigint(d)

SpecMain == Init /\ [][NextMain]_vars

-----------------------------------------------------------------------------
(* Properties of server.ts *)

\* client.connectUser has been called
ConnectCalled == client.lastConnect # NoConnect

\* C27 as stated: the token getUserToken(u) hands to client.connectUser
\* embeds subject u and is unexpired at that moment, for every sequence of
\* requests and every amount of elapsed time.
C27_Original ==
    ConnectCalled =>
        /\ client.lastConnect.token.payload.user_id = client.lastConnect.user
        /\ ValidateToken(client.lastConnect.token, client.lastConnect.at,
                         client.lastConnect.at)

\* C28 as stated: when a handler issues its feed call for u the shared client
\* is connected as u and currentConnectedUser is u, and client.connectUser is
\* not called while the client has a different user, without a
\* client.disconnectUser having resolved in between.
C28_Original ==
    /\ client.lastFeedCall # NoFeedCall =>
          /\ client.lastFeedCall.clientUser = client.lastFeedCall.user
          /\ client.lastFeedCall.currentConnectedUser = client.lastFeedCall.user
    /\ ConnectCalled =>
          client.lastConnect.over \in {NoUser, client.lastConnect.user}


\* C29 as stated: in the main application, with a token validity above 300
\* seconds, the credential cached in the TokenManager is unexpired at every
\* instant from the first getValidToken to teardown: no periodic check and
\* no SIGINT finds it expired.
C29_Original ==
    main # NotStarted => (main.validity > 300 => ~main.lapsed)

====
